---- MODULE Spec2Model ----
(***************************************************************************)
(* Marker detector (marker_detector.py): the Bresenham axis rasterizer,    *)
(* the corner resolver, the ring decoder and the per-frame handler that    *)
(* appends the decoded rows to the marker log.                             *)
(***************************************************************************)
EXTENDS Integers, Sequences, FiniteSets, TLC

VARIABLES
    pc,         \* "input": arguments chosen, "done": the operation has run
    lineArgs,   \* <<x0, y0, x1, y1>> handed to bresenhamLineGenerator
    linePixel,  \* the list bresenhamLineGenerator returned
    poly,       \* one 5-vertex polygon of the list `polygons`
    resolved,   \* what the corner search of lines 169-229 found for poly
    axisEnds,   \* <<corner, middle point>> of a marker axis to decode
    image,      \* the grayscale frame the decoder reads
    decoded,    \* what the decoding of lines 233-285 produced
    log,        \* objectToTrack -> rows of obj<objectToTrack>_marker.csv
    call        \* the last detectAndLabelMarkers invocation and its outcome

vars == <<pc, lineArgs, linePixel, poly, resolved, axisEnds, image, decoded,
          log, call>>

-----------------------------------------------------------------------------
(* Bounds of the model *)

\* rasterizer end points are drawn from -MaxCoord..MaxCoord on each axis
MaxCoord == 3

\* decoded axes end within MaxAxis pixels of their corner on each axis
MaxAxis == 40

\* size of the frames
FrameWidth == 1920

FrameHeight == 1080

\* invocations of detectAndLabelMarkers in one run, polygons found in one
\* frame, largest frame index, number of tracked objects
MaxCalls == 2

MaxPolygons == 2

MaxFrame == 1

NumObjects == 2

-----------------------------------------------------------------------------
(* bresenhamLineGenerator *)

Abs(n) == IF n < 0 THEN -n ELSE n

\* slope = dy / dx if dx != 0 else 10.0, kept as the exact fraction <<num, den>>
\* (den > 0), so that the comparisons with 1.0 are those of the quotient
SlopeOf(dx, dy) == IF dx # 0 THEN <<dy, dx>> ELSE <<10, 1>>

SlopeLT1(slope) == slope[1] < slope[2]

SlopeGE1(slope) == slope[1] >= slope[2]

SlopeGT1(slope) == slope[1] > slope[2]

\* yStep = -1 if slope >= 1.0 and y0 > y1 else 1
yStepOf(slope, y0, y1) == IF SlopeGE1(slope) /\ y0 > y1 THEN -1 ELSE 1

\* xStep, the three-way disjunction of lines 38-44
xStepOf(slope, x0, y0, x1, y1) ==
    IF \/ ((x0 > x1 \/ y0 > y1) /\ SlopeLT1(slope))
       \/ (SlopeGT1(slope) /\ x0 > x1 /\ y0 > y1)
       \/ (x0 > x1 /\ y0 < y1)
    THEN -1 ELSE 1

\* the point one iteration appends: (y, x) in the swapped loop, (x, y) otherwise
EmitPoint(swapped, x, y) == IF swapped THEN <<y, x>> ELSE <<x, y>>

\* one iteration of either for-loop; st carries x, y, p, flag and the list
LoopBody(st, x0, p0, dx, dy, xStep, yStep, swapped) ==
    LET xPrevious == IF st.flag THEN x0 ELSE st.x
        pPrevious == IF st.flag THEN p0 ELSE st.p
        pNow      == IF st.flag THEN p0 ELSE st.p
        xNew      == IF pNow >= 0 THEN st.x + xStep ELSE st.x
        pNew      == pPrevious + 2 * dx - 2 * dy * Abs(xNew - xPrevious)
        yNew      == st.y + yStep
    IN  [x |-> xNew, y |-> yNew, p |-> pNew, flag |-> FALSE,
         out |-> Append(st.out, EmitPoint(swapped, xNew, yNew))]

\* for _ in range(n): LoopBody. The n iterations are run as two halves, one
\* after the other, and the test on st.out (never empty) has st evaluated on
\* entry, which keeps the evaluation of a long line shallow.
RECURSIVE LineLoop(_, _, _, _, _, _, _, _, _)
LineLoop(n, st, x0, p0, dx, dy, xStep, yStep, swapped) ==
    IF n <= 0 \/ st.out = <<>> THEN st
    ELSE IF n = 1 THEN LoopBody(st, x0, p0, dx, dy, xStep, yStep, swapped)
    ELSE LineLoop(n - (n \div 2),
                  LineLoop(n \div 2, st, x0, p0, dx, dy, xStep, yStep, swapped),
                  x0, p0, dx, dy, xStep, yStep, swapped)

\* an off-by-one loop bound, range(abs(y1 - y0) + 1)
LoopCountOffByOne(ry0, ry1) == Abs(ry1 - ry0) + 1

\* number of iterations of the loop: range(abs(y1 - y0)) on the (swapped) ends
LoopCount(ry0, ry1) == Abs(ry1 - ry0)

bresenhamLineGenerator(ax0, ay0, ax1, ay1) ==
    LET dx0     == Abs(ax1 - ax0)
        dy0     == Abs(ay1 - ay0)
        slope   == SlopeOf(dx0, dy0)
        yStep   == yStepOf(slope, ay0, ay1)
        xStep   == xStepOf(slope, ax0, ay0, ax1, ay1)
        swapped == SlopeLT1(slope)
        \* x0, x1, y0, y1 = y0, y1, x0, x1
        x0      == IF swapped THEN ay0 ELSE ax0
        x1      == IF swapped THEN ay1 ELSE ax1
        y0      == IF swapped THEN ax0 ELSE ay0
        y1      == IF swapped THEN ax1 ELSE ay1
        dx      == Abs(x1 - x0)
        dy      == Abs(y1 - y0)
        p0      == 2 * dx - dy
        st0     == [x |-> x0, y |-> y0, p |-> p0, flag |-> TRUE,
                    out |-> << <<ax0, ay0>> >>]
    IN  LineLoop(LoopCount(y0, y1), st0, x0, p0, dx, dy, xStep, yStep, swapped).out

-----------------------------------------------------------------------------
(* computeDistance and the corner search of detectAndLabelMarkers *)

NoPoint == <<>>

\* sides shorter than this are the short sides of a marker
ShortSideLimit == 80

\* the radicand of computeDistance: (p2[0]-p1[0])**2 + (p2[1]-p1[1])**2
computeDistanceSq(p1, p2) ==
    (p2[1] - p1[1]) * (p2[1] - p1[1]) + (p2[2] - p1[2]) * (p2[2] - p1[2])

\* the comparison with the sense inverted
IsShortSideInverted(p1, p2) ==
    computeDistanceSq(p1, p2) > ShortSideLimit * ShortSideLimit

\* computeDistance(p1, p2) < 80.0: the square root of an integer radicand is
\* below 80.0 exactly when the radicand is below 80 * 80
IsShortSide(p1, p2) ==
    computeDistanceSq(p1, p2) < ShortSideLimit * ShortSideLimit

\* poly[i][0] for a 0-based vertex index i
Vertex(p, i) == p[i + 1]

totalVertices(p) == Len(p)

\* the 0-based indices 0 .. n-1 in order, as enumerate yields them
RECURSIVE IndexSeq(_)
IndexSeq(n) == IF n <= 0 THEN <<>> ELSE Append(IndexSeq(n - 1), n - 1)

\* matchingSides: the indices of the sides shorter than 80, in vertex order
matchingSides(p) ==
    SelectSeq(IndexSeq(totalVertices(p)),
              LAMBDA vertexIndex :
                  IsShortSide(Vertex(p, vertexIndex),
                              Vertex(p, (vertexIndex + 1) % totalVertices(p))))

\* the index of the next matching side: (loopIndex + 1) % 3
NextSideIndex(loopIndex) == (loopIndex + 1) % 3

\* the lower side taken as the side paired with the current one
LowerSideIndexAsNext(loopIndex) == (loopIndex + 1) % 3

\* the index of the lower side: (loopIndex + 2) % 3
LowerSideIndex(loopIndex) == (loopIndex + 2) % 3

\* middlePointX, middlePointY: the floor-averaged middle of the lower side
MiddlePoint(a, b) == <<(a[1] + b[1]) \div 2, (a[2] + b[2]) \div 2>>

\* the body of `if cornerFound:` up to lowerSideMiddlePoint; indexing
\* matchingSides past its end raises IndexError
CornerFound(p, ms, loopIndex, concaveCornerPoint) ==
    LET k == LowerSideIndex(loopIndex)
    IN  IF k >= Len(ms)
        THEN [status |-> "IndexError", corner |-> NoPoint, endpoint |-> NoPoint]
        ELSE [status   |-> "found",
              corner   |-> concaveCornerPoint,
              endpoint |-> MiddlePoint(Vertex(p, ms[k + 1]),
                                       Vertex(p, (ms[k + 1] + 1) % totalVertices(p)))]

\* for loopIndex, side in enumerate(matchingSides), from loopIndex on
RECURSIVE CornerLoop(_, _, _)
CornerLoop(p, ms, loopIndex) ==
    IF loopIndex >= Len(ms)
    THEN [status |-> "none", corner |-> NoPoint, endpoint |-> NoPoint]
    ELSE
        LET side == ms[loopIndex + 1]
            n    == NextSideIndex(loopIndex)
        IN  IF n >= Len(ms)
            THEN [status |-> "IndexError", corner |-> NoPoint, endpoint |-> NoPoint]
            ELSE
                LET firstSideFirstPoint   == Vertex(p, side)
                    firstSideSecondPoint  == Vertex(p, (side + 1) % totalVertices(p))
                    secondSideFirstPoint  == Vertex(p, ms[n + 1])
                    secondSideSecondPoint ==
                        Vertex(p, (ms[n + 1] + 1) % totalVertices(p))
                IN  IF \/ firstSideFirstPoint = secondSideFirstPoint
                       \/ firstSideFirstPoint = secondSideSecondPoint
                    THEN CornerFound(p, ms, loopIndex, firstSideFirstPoint)
                    ELSE IF \/ firstSideSecondPoint = secondSideFirstPoint
                            \/ firstSideSecondPoint = secondSideSecondPoint
                    THEN CornerFound(p, ms, loopIndex, firstSideSecondPoint)
                    ELSE CornerLoop(p, ms, loopIndex + 1)

\* the corner search for one polygon: "found" with the concave corner and the
\* lower side's middle point, "none" when the loop ends without a match, or
\* "IndexError"
ResolveCorner(p) == CornerLoop(p, matchingSides(p), 0)

-----------------------------------------------------------------------------
(* The grayscale frame *)

\* gray[:, 0:1200:] = 0
MaskedColumns == 1200

\* the intensity above which a slot reads as bit "0"
BitThreshold == 180

\* the intensity of the unmasked pixel (x, y) of a frame of the given kind
Pixel(kind, x, y) ==
    CASE kind = "dark"    -> 0
      [] kind = "bright"  -> 255
      [] kind = "at180"   -> 180
      [] kind = "at181"   -> 181
      [] kind = "checker" -> IF (x + y) % 2 = 0 THEN 255 ELSE 0
      [] kind = "bands"   -> IF (x \div 4) % 2 = 0 THEN 0 ELSE 255

ImageKinds == {"dark", "bright", "at180", "at181", "checker", "bands"}

\* gray[row, col]: an index outside -size .. size-1 raises IndexError, a
\* negative one counts from the end; columns below 1200 were zeroed
GrayAt(img, row, col) ==
    IF \/ row < 0 - FrameHeight \/ row >= FrameHeight
       \/ col < 0 - FrameWidth \/ col >= FrameWidth
    THEN [ok |-> FALSE, value |-> 0]
    ELSE LET r == IF row < 0 THEN row + FrameHeight ELSE row
             c == IF col < 0 THEN col + FrameWidth ELSE col
         IN  [ok |-> TRUE,
              value |-> IF c < MaskedColumns THEN 0 ELSE Pixel(img, c, r)]

-----------------------------------------------------------------------------
(* The decoding of one marker axis (lines 239-290) *)

\* the stride without the 1.95 factor
CycleJumpTenth(markerAxisLen) == markerAxisLen \div 10

\* cycleJump = int(markerAxisLen / 10 * 1.95)
CycleJumpOf(markerAxisLen) == (markerAxisLen * 195) \div 1000

\* the correction with 0.85 applied to every sample after the first
WarpCorrectEverySample(actCycle, tempIndex) ==
    IF actCycle = 0 THEN (tempIndex * 9) \div 10 ELSE (tempIndex * 85) \div 100

\* the if-elif block of lines 253-256: int(tempIndex * 0.85) for actCycle in
\* [1, 2, 3, 4], int(tempIndex * 0.9) for actCycle == 0, tempIndex otherwise
WarpCorrect(actCycle, tempIndex) ==
    IF actCycle \in {1, 2, 3, 4} THEN (tempIndex * 85) \div 100
    ELSE IF actCycle = 0 THEN (tempIndex * 9) \div 10
    ELSE tempIndex

\* "0" if gray[...] > 180 else "1"
SlotBit(intensity) == IF intensity > BitThreshold THEN 0 ELSE 1

\* binaryRepr[::-1]
RECURSIVE Reverse(_)
Reverse(s) == IF s = <<>> THEN <<>> ELSE Append(Reverse(Tail(s)), Head(s))

\* int(digits, 2) for a non-empty digit string, most significant digit first
RECURSIVE ParseBinary(_)
ParseBinary(digits) ==
    IF digits = <<>> THEN 0
    ELSE 2 * ParseBinary(SubSeq(digits, 1, Len(digits) - 1)) + digits[Len(digits)]

DecodeFailure(exception, bits, samples) ==
    [status |-> exception, identifier |-> 0 - 1, bits |-> bits, samples |-> samples]

\* for intervalCentreIndex in range(cycleJump, markerAxisLen, cycleJump), from
\* intervalCentreIndex on; samples lists <<intervalCentreIndex, tempIndex>>
RECURSIVE SampleLoop(_, _, _, _, _, _, _)
SampleLoop(markerAxis, img, cycleJump, intervalCentreIndex, actCycle, bits, samples) ==
    IF intervalCentreIndex >= Len(markerAxis)
    THEN IF bits = <<>>
         THEN DecodeFailure("ValueError", bits, samples)
         ELSE [status     |-> "ok",
               identifier |-> ParseBinary(Reverse(bits)),
               bits       |-> bits,
               samples    |-> samples]
    ELSE
        LET tempIndex == WarpCorrect(actCycle, intervalCentreIndex)
            taken     == Append(samples, <<intervalCentreIndex, tempIndex>>)
        IN  IF tempIndex >= Len(markerAxis)
            THEN DecodeFailure("IndexError", bits, taken)
            ELSE
                LET point == markerAxis[tempIndex + 1]
                    g     == GrayAt(img, point[2], point[1])
                IN  IF ~g.ok
                    THEN DecodeFailure("IndexError", bits, taken)
                    ELSE SampleLoop(markerAxis, img, cycleJump,
                                    intervalCentreIndex + cycleJump, actCycle + 1,
                                    Append(bits, SlotBit(g.value)), taken)

\* lines 239-285: range() with a zero step raises ValueError
DecodeRing(markerAxis, img) ==
    LET cycleJump == CycleJumpOf(Len(markerAxis))
    IN  IF cycleJump = 0
        THEN DecodeFailure("ValueError", <<>>, <<>>)
        ELSE SampleLoop(markerAxis, img, cycleJump, cycleJump, 0, <<>>, <<>>)

\* radius and angular step (degrees) of the reference offset
OffsetRadius == 70

AngleStep == -15

\* cos of 0, 15, ..., 90 degrees in millionths
CosTable == <<1000000, 965926, 866025, 707107, 500000, 258819, 0>>

\* cos of deg (a multiple of 15 in 0..345), in millionths
CosOf(deg) ==
    IF deg <= 90 THEN CosTable[deg \div 15 + 1]
    ELSE IF deg <= 180 THEN 0 - CosTable[(180 - deg) \div 15 + 1]
    ELSE IF deg <= 270 THEN 0 - CosTable[(deg - 180) \div 15 + 1]
    ELSE CosTable[(360 - deg) \div 15 + 1]

SinOf(deg) == CosOf((deg + 270) % 360)

\* (qx, qy) = (cos(radAngle * id) * 70, sin(radAngle * id) * 70), in millionths
ReferenceOffset(identifier) ==
    LET deg == (AngleStep * identifier) % 360
    IN  <<CosOf(deg) * OffsetRadius, SinOf(deg) * OffsetRadius>>

\* the row f"{currentFrame},{id},{markerAxis[0][0]},{markerAxis[0][1]},{qx},{qy},0"
RowOf(currentFrame, identifier, markerAxis) ==
    <<currentFrame, identifier, markerAxis[1][1], markerAxis[1][2],
      ReferenceOffset(identifier)[1], ReferenceOffset(identifier)[2], 0>>

-----------------------------------------------------------------------------
(* detectAndLabelMarkers *)

\* lines 285-294: the row added to outputFileContent once the axis is decoded
RowOrRaise(d, markerAxis, currentFrame) ==
    IF d.status # "ok" THEN [status |-> d.status, row |-> <<>>]
    ELSE [status |-> "row", row |-> RowOf(currentFrame, d.identifier, markerAxis)]

\* lines 239-294 for the axis bresenhamLineGenerator returned
DecodeAxis(markerAxis, img, currentFrame) ==
    RowOrRaise(DecodeRing(markerAxis, img), markerAxis, currentFrame)

\* lines 207-294 for the outcome r of the corner search
AxisOfCorner(r, img, currentFrame) ==
    IF r.status = "none" THEN [status |-> "skip", row |-> <<>>]
    ELSE IF r.status # "found" THEN [status |-> r.status, row |-> <<>>]
    ELSE DecodeAxis(bresenhamLineGenerator(r.corner[1], r.corner[2],
                                           r.endpoint[1], r.endpoint[2]),
                    img, currentFrame)

\* the body of `for poly in polygons` for one polygon: "row" with the row it
\* adds to outputFileContent, "skip" when no corner is found, or the exception
ProcessPolygon(p, img, currentFrame) ==
    AxisOfCorner(ResolveCorner(p), img, currentFrame)

\* the loop over polygons from the i-th on, r being the outcome of the i-th;
\* an exception ends the invocation
RECURSIVE PolygonLoop(_, _, _, _, _)
AfterPolygon(r, polygons, i, img, currentFrame, outputFileContent) ==
    IF r.status = "row"
    THEN PolygonLoop(polygons, i + 1, img, currentFrame,
                     Append(outputFileContent, r.row))
    ELSE IF r.status = "skip"
    THEN PolygonLoop(polygons, i + 1, img, currentFrame, outputFileContent)
    ELSE [outcome |-> r.status, content |-> outputFileContent]

PolygonLoop(polygons, i, img, currentFrame, outputFileContent) ==
    IF i > Len(polygons)
    THEN [outcome |-> "returned", content |-> outputFileContent]
    ELSE AfterPolygon(ProcessPolygon(polygons[i], img, currentFrame),
                      polygons, i, img, currentFrame, outputFileContent)

\* what open(..., "a") / write appends: nothing when the loop raised, since the
\* file is opened after the loop
Written(run) == IF run.outcome = "returned" THEN run.content ELSE <<>>

\* lines 315-317 and the return, with the outcome of the loop
WriteAndReturn(run, polygons, img, currentFrame, objectToTrack) ==
    /\ log' = [log EXCEPT ![objectToTrack] = @ \o Written(run)]
    /\ call' = [n             |-> call.n + 1,
                currentFrame  |-> currentFrame,
                objectToTrack |-> objectToTrack,
                polygons      |-> polygons,
                outcome       |-> run.outcome,
                content       |-> run.content,
                before        |-> log]
    /\ image' = img
    /\ UNCHANGED <<pc, lineArgs, linePixel, poly, resolved, axisEnds, decoded>>

detectAndLabelMarkers(polygons, img, currentFrame, objectToTrack) ==
    /\ pc = "idle"
    /\ call.n < MaxCalls
    /\ WriteAndReturn(PolygonLoop(polygons, 1, img, currentFrame, <<>>),
                      polygons, img, currentFrame, objectToTrack)

-----------------------------------------------------------------------------
(* Inputs and specifications *)

NoResult == [status |-> "unset", corner |-> NoPoint, endpoint |-> NoPoint]

NoDecode == [status |-> "unset", identifier |-> 0 - 1, bits |-> <<>>, samples |-> <<>>]

NoCall == [n |-> 0, currentFrame |-> 0, objectToTrack |-> 0, polygons |-> <<>>,
           outcome |-> "unset", content |-> <<>>, before |-> <<>>]

Objects == 1..NumObjects

EmptyLog == [o \in Objects |-> <<>>]

Coords == (0 - MaxCoord)..MaxCoord

\* vertices lie right of the masked columns, on a grid whose spacings lie on
\* both sides of the short-side limit
GridXs == {1300, 1370, 1500}

GridYs == {300, 360, 430}

PolyPoints == GridXs \X GridYs

\* the 5-vertex polygons with pairwise distinct vertices
Polygons == {p \in [1..5 -> PolyPoints] : \A i, j \in 1..5 : i # j => p[i] # p[j]}

\* the corner of the decoded axes
AxisCorner == <<1220, 400>>

AxisOffsets == (0 - MaxAxis)..MaxAxis

(* the rasterizer applied to every pair of end points *)
InitLine ==
    /\ pc = "input"
    /\ lineArgs \in Coords \X Coords \X Coords \X Coords
    /\ linePixel = <<>>
    /\ poly = <<>>
    /\ resolved = NoResult
    /\ axisEnds = <<>>
    /\ image = "dark"
    /\ decoded = NoDecode
    /\ log = EmptyLog
    /\ call = NoCall

Rasterize ==
    /\ pc = "input"
    /\ lineArgs # <<>>
    /\ linePixel' = bresenhamLineGenerator(lineArgs[1], lineArgs[2],
                                           lineArgs[3], lineArgs[4])
    /\ pc' = "done"
    /\ UNCHANGED <<lineArgs, poly, resolved, axisEnds, image, decoded, log, call>>

NextLine == Rasterize

SpecLine == InitLine /\ [][NextLine]_vars

(* the corner search applied to every polygon over the grid *)
InitResolve ==
    /\ pc = "input"
    /\ poly \in Polygons
    /\ resolved = NoResult
    /\ lineArgs = <<>>
    /\ linePixel = <<>>
    /\ axisEnds = <<>>
    /\ image = "dark"
    /\ decoded = NoDecode
    /\ log = EmptyLog
    /\ call = NoCall

Resolve ==
    /\ pc = "input"
    /\ poly # <<>>
    /\ resolved' = ResolveCorner(poly)
    /\ pc' = "done"
    /\ UNCHANGED <<lineArgs, linePixel, poly, axisEnds, image, decoded, log, call>>

NextResolve == Resolve

SpecResolve == InitResolve /\ [][NextResolve]_vars

(* the decoder applied to the axis from AxisCorner to every point around it *)
InitDecode ==
    /\ pc = "input"
    /\ \E a \in AxisOffsets, b \in AxisOffsets :
           axisEnds = <<AxisCorner, <<AxisCorner[1] + a, AxisCorner[2] + b>> >>
    /\ image \in ImageKinds
    /\ decoded = NoDecode
    /\ lineArgs = <<>>
    /\ linePixel = <<>>
    /\ poly = <<>>
    /\ resolved = NoResult
    /\ log = EmptyLog
    /\ call = NoCall

Decode ==
    /\ pc = "input"
    /\ axisEnds # <<>>
    /\ linePixel' = bresenhamLineGenerator(axisEnds[1][1], axisEnds[1][2],
                                           axisEnds[2][1], axisEnds[2][2])
    /\ decoded' = DecodeRing(linePixel', image)
    /\ pc' = "done"
    /\ UNCHANGED <<lineArgs, poly, resolved, axisEnds, image, log, call>>

NextDecode == Decode

SpecDecode == InitDecode /\ [][NextDecode]_vars

(* detectAndLabelMarkers invoked on frames holding polygons of these shapes *)

\* three short sides, two of them meeting at (1300, 430)
MarkerPolygon ==
    << <<1300, 360>>, <<1500, 300>>, <<1500, 360>>, <<1370, 430>>, <<1300, 430>> >>

\* three short sides, two of them meeting at (1300, 300)
SecondMarkerPolygon ==
    << <<1300, 360>>, <<1300, 300>>, <<1370, 300>>, <<1500, 360>>, <<1500, 430>> >>

\* no short side
LongSidedPolygon ==
    << <<1300, 360>>, <<1370, 300>>, <<1500, 300>>, <<1500, 430>>, <<1370, 430>> >>

\* one short side
OneShortSidePolygon ==
    << <<1300, 300>>, <<1300, 360>>, <<1370, 430>>, <<1500, 430>>, <<1500, 300>> >>

FramePolygons ==
    {MarkerPolygon, SecondMarkerPolygon, LongSidedPolygon, OneShortSidePolygon}

\* the lists `polygons` of at most MaxPolygons polygons
Frames == UNION {[1..n -> FramePolygons] : n \in 0..MaxPolygons}

FrameImages == {"dark", "checker"}

Init ==
    /\ pc = "idle"
    /\ log = EmptyLog
    /\ call = NoCall
    /\ image = "dark"
    /\ lineArgs = <<>>
    /\ linePixel = <<>>
    /\ poly = <<>>
    /\ resolved = NoResult
    /\ axisEnds = <<>>
    /\ decoded = NoDecode

Next ==
    \E polygons \in Frames, img \in FrameImages,
       currentFrame \in 0..MaxFrame, objectToTrack \in Objects :
        detectAndLabelMarkers(polygons, img, currentFrame, objectToTrack)

Spec == Init /\ [][Next]_vars

-----------------------------------------------------------------------------
(* Properties of the rasterizer, checked under SpecLine *)

Last(s) == s[Len(s)]

Max(a, b) == IF a >= b THEN a ELSE b

\* C1: the returned path is a line between the two points: its last point is
\* exactly (x1, y1), whatever the slope and the relative position of the ends.
C1_EndsAtEndPoint ==
    pc = "done" => Last(linePixel) = <<lineArgs[3], lineArgs[4]>>

\* C2: the returned path starts at (x0, y0), holds max(|x1-x0|, |y1-y0|) + 1
\* points, and consecutive points differ by at most 1 in each coordinate.
C2_StartLengthConnected ==
    pc = "done" =>
        /\ Len(linePixel) >= 1
        /\ linePixel[1] = <<lineArgs[1], lineArgs[2]>>
        /\ Len(linePixel) = Max(Abs(lineArgs[3] - lineArgs[1]),
                                Abs(lineArgs[4] - lineArgs[2])) + 1
        /\ \A i \in 1..(Len(linePixel) - 1) :
              /\ Abs(linePixel[i + 1][1] - linePixel[i][1]) <= 1
              /\ Abs(linePixel[i + 1][2] - linePixel[i][2]) <= 1

\* a shallow line drawn right to left with a diagonal step in it has been rasterized
C2_Witness ==
    /\ pc = "done"
    /\ lineArgs[1] > lineArgs[3]
    /\ Abs(lineArgs[4] - lineArgs[2]) < Abs(lineArgs[3] - lineArgs[1])
    /\ Len(linePixel) >= 4
    /\ \E i \in 1..(Len(linePixel) - 1) :
          /\ linePixel[i + 1][1] # linePixel[i][1]
          /\ linePixel[i + 1][2] # linePixel[i][2]

-----------------------------------------------------------------------------
(* Properties of the corner search, checked under SpecResolve *)

Sides == 0..4

\* the two end points of side i of polygon p (0-based, cyclic)
SideEnds(p, i) == {p[i + 1], p[((i + 1) % 5) + 1]}

SideLengthSq(p, i) ==
    LET a == p[i + 1]
        b == p[((i + 1) % 5) + 1]
    IN  (b[1] - a[1]) * (b[1] - a[1]) + (b[2] - a[2]) * (b[2] - a[2])

\* the sides of length < 80
ShortSideSet(p) == {i \in Sides : SideLengthSq(p, i) < 6400}

DistinctVertices(p) == \A i, j \in 1..5 : i # j => p[i] # p[j]

NoShortPairSharesVertex(p) ==
    \A i, j \in ShortSideSet(p) : i # j => SideEnds(p, i) \cap SideEnds(p, j) = {}

Cross(a, b, c) == (b[1] - a[1]) * (c[2] - a[2]) - (b[2] - a[2]) * (c[1] - a[1])

\* strictly convex: every other vertex lies strictly on one and the same side
\* of every edge
IsConvex(p) ==
    \E s \in {1, 0 - 1} :
        \A i \in Sides : \A j \in Sides \ {i, (i + 1) % 5} :
            s * Cross(p[i + 1], p[((i + 1) % 5) + 1], p[j + 1]) > 0

\* the vertex list started k vertices later
Rotate(p, k) == [i \in 1..5 |-> p[((i - 1 + k) % 5) + 1]]

\* C3: a polygon in which no two short sides share a vertex, whatever the
\* number of its short sides, is skipped silently: no corner, no error.
C3_NoSharedVertexSkipsSilently ==
    (pc = "done" /\ NoShortPairSharesVertex(poly)) => resolved.status = "none"

\* C6 as stated: for a convex pentagon the corner search never returns a
\* concave corner / axis end point pair, whatever its side lengths.
C6_ConvexNeverResolved ==
    (pc = "done" /\ IsConvex(poly)) => resolved.status # "found"

\* C6 as amended: for a convex pentagon whose five sides are all at least 80
\* long the corner search reports failure: no pair, nothing raised.
C6_ConvexLongSidedFails ==
    (pc = "done" /\ IsConvex(poly) /\ \A i \in Sides : SideLengthSq(poly, i) >= 6400)
        => resolved = [status |-> "none", corner |-> NoPoint, endpoint |-> NoPoint]

\* the corner search has run on a convex pentagon without a short side
C6_Witness ==
    /\ pc = "done"
    /\ IsConvex(poly)
    /\ \A i \in Sides : SideLengthSq(poly, i) >= 6400
    /\ resolved.status = "none"

\* C7: with distinct vertices and exactly the short sides i, i+1, i+3 (mod 5),
\* the corner is the vertex sides i and i+1 share and the axis end point is the
\* floor-averaged middle of side i+3.
C7_AdjacentPairCorner ==
    pc = "done" /\ DistinctVertices(poly) =>
        \A i \in Sides :
            ShortSideSet(poly) = {i, (i + 1) % 5, (i + 3) % 5} =>
                LET a == poly[((i + 3) % 5) + 1]
                    b == poly[((i + 4) % 5) + 1]
                IN  /\ resolved.status = "found"
                    /\ resolved.corner = poly[((i + 1) % 5) + 1]
                    /\ resolved.endpoint =
                           <<(a[1] + b[1]) \div 2, (a[2] + b[2]) \div 2>>

\* the search has resolved a polygon whose adjacent short pair wraps around
\* the vertex list (sides 4 and 0), the third short side being side 2
C7_Witness ==
    /\ pc = "done"
    /\ DistinctVertices(poly)
    /\ ShortSideSet(poly) = {4, 0, 2}
    /\ resolved.status = "found"
    /\ resolved.corner = poly[1]

\* C9: with distinct vertices and exactly three short sides, every rotation of
\* the vertex list yields the same concave corner and axis end point.
C9_RotationInvariant ==
    (pc = "done" /\ DistinctVertices(poly) /\ Cardinality(ShortSideSet(poly)) = 3) =>
        \A k \in 1..4 : ResolveCorner(Rotate(poly, k)) = resolved

-----------------------------------------------------------------------------
(* Properties of the decoder, checked under SpecDecode *)

\* C4: for every axis path and any intensities the decoder produces an
\* identifier, and it lies in 0..1023.
C4_IdentifierProduced ==
    pc = "done" => (decoded.status = "ok" /\ decoded.identifier \in 0..1023)

\* C8 as stated: the index looked up for the k-th sample is its centre scaled
\* by 0.9 (truncated) for k = 1 and by 0.85 (truncated) for every later sample.
C8_EverySampleScaled ==
    pc = "done" =>
        \A k \in 1..Len(decoded.samples) :
            LET centre == decoded.samples[k][1]
            IN  /\ centre = k * decoded.samples[1][1]
                /\ decoded.samples[k][2] =
                       IF k = 1 THEN (centre * 9) \div 10 ELSE (centre * 85) \div 100

\* C8 as amended: centre scaled by 0.9 for the first sample, by 0.85 for the
\* second to the fifth, and looked up unscaled from the sixth sample on.
C8_FirstFiveScaled ==
    pc = "done" =>
        \A k \in 1..Len(decoded.samples) :
            LET centre == decoded.samples[k][1]
            IN  /\ centre = k * decoded.samples[1][1]
                /\ decoded.samples[k][2] =
                       IF k = 1 THEN (centre * 9) \div 10
                       ELSE IF k <= 5 THEN (centre * 85) \div 100
                       ELSE centre

\* an axis has been decoded with nine samples, the last four unscaled
C8_Witness ==
    /\ pc = "done"
    /\ decoded.status = "ok"
    /\ Len(decoded.samples) = 9
    /\ decoded.samples[9][2] = decoded.samples[9][1]
    /\ decoded.samples[2][2] < decoded.samples[2][1]

\* C10: for L >= 6 the decoder takes 5 to 9 samples at centres cycleJump,
\* 2*cycleJump, ... < L with cycleJump = floor(L/10*1.95), exactly 5 for
\* L >= 26; every index looked up lies in 0..L-1; an identifier decoded from
\* a path of length >= 26 is below 32.
C10_SampleCount ==
    (pc = "done" /\ Len(linePixel) >= 6) =>
        LET L == Len(linePixel)
            n == Len(decoded.samples)
        IN  /\ decoded.status = "ok"
            /\ n >= 5 /\ n <= 9
            /\ L >= 26 => (n = 5 /\ decoded.identifier < 32)
            /\ \A k \in 1..n :
                  /\ decoded.samples[k][1] = k * ((L * 195) \div 1000)
                  /\ decoded.samples[k][1] < L
                  /\ decoded.samples[k][2] \in 0..(L - 1)
            /\ (n + 1) * ((L * 195) \div 1000) >= L
            /\ Len(decoded.bits) = n

\* a path of at least 26 points over a dark frame has been decoded into 31
C10_Witness ==
    /\ pc = "done"
    /\ Len(linePixel) >= 26
    /\ Len(decoded.samples) = 5
    /\ decoded.identifier = 31

-----------------------------------------------------------------------------
(* Properties of detectAndLabelMarkers, checked under Spec *)

\* the rows of the polygons of a frame that are resolved and decoded, in
\* polygon order
RECURSIVE DecodedRows(_, _, _)
DecodedRows(polygons, img, currentFrame) ==
    IF polygons = <<>> THEN <<>>
    ELSE LET r == ProcessPolygon(Head(polygons), img, currentFrame)
         IN  (IF r.status = "row" THEN <<r.row>> ELSE <<>>)
                 \o DecodedRows(Tail(polygons), img, currentFrame)

\* C5: each invocation leaves the content of the log before it as a prefix and
\* adds exactly one row (frameIndex, identifier, cornerX, cornerY, offsetX,
\* offsetY, 0) per polygon it resolved and decoded, in polygon order; call.content
\* holds the rows of the polygons the invocation resolved and decoded.
C5_AppendsDecodedRows ==
    call.n > 0 =>
        /\ log[call.objectToTrack] = call.before[call.objectToTrack] \o call.content
        /\ \A o \in Objects \ {call.objectToTrack} : log[o] = call.before[o]
        /\ call.outcome = "returned" =>
               call.content = DecodedRows(call.polygons, image, call.currentFrame)
        /\ \A i \in 1..Len(call.content) :
               /\ call.content[i][1] = call.currentFrame
               /\ call.content[i][7] = 0
               /\ <<call.content[i][3], call.content[i][4]>> \in
                      {ResolveCorner(call.polygons[j]).corner :
                          j \in 1..Len(call.polygons)}

====
